---- MODULE Spec2Model ----
(***************************************************************************)
(* Model of the RAG query server (src/server.js, current revision at      *)
(* lines 352-623): input sanitizer, POST /query handler with its three     *)
(* awaited upstream calls and its error classifier, and server startup.    *)
(***************************************************************************)
EXTENDS Integers, Sequences, FiniteSets, TLC

VARIABLES
    sanIn,      \* argument handed to sanitizeInput (a JavaScript value)
    sanOut,     \* result of sanitizeInput(sanIn)
    sanOut2,    \* result of sanitizeInput applied to sanOut's value
    sanPc,      \* "input" -> "once" -> "twice"
    env,        \* set of required environment variables that are set
    startPc,    \* position of the module top level / startServer
    collection, \* the module-level `collection` handle
    listening,  \* app.listen has been called
    exitCode,   \* argument of process.exit, -1 while the process runs
    req         \* per request: the handler's locals, calls issued, responses sent

sanVars == <<sanIn, sanOut, sanOut2, sanPc>>
srvVars == <<env, startPc, collection, listening, exitCode, req>>
vars == <<sanIn, sanOut, sanOut2, sanPc, env, startPc, collection, listening, exitCode, req>>

-----------------------------------------------------------------------------
(* JavaScript values handed to sanitizeInput.  A string is its sequence of  *)
(* characters; every other type carries no characters.  "U+00A0" stands for *)
(* the no-break space, one of the non-ASCII characters of the class \s.     *)

MaxLen == 4

Alphabet == {"<", ">", "{", "a", " ", "\n", "U+00A0", "@", "?"}

NonTextTypes == {"undefined", "null", "number", "boolean", "object", "array"}

Str(chars) == [type |-> "string", chars |-> chars]

NonText(t) == [type |-> t, chars |-> <<>>]

Strings == UNION {[1..n -> Alphabet] : n \in 0..MaxLen}

SanInputs == {Str(s) : s \in Strings} \cup {NonText(t) : t \in NonTextTypes}

(* Character classes of the three regular expressions. *)
Structural == {"{", "}", "[", "]", "(", ")", ";", "<", ">"}

LettersDigits == {"a", "b", "h", "i", "s", "z", "A", "Z", "0", "7", "9"}

AsciiWhitespace == {" ", "\t", "\n"}

(* \s and trim() share one class: ASCII whitespace and the Unicode spaces. *)
Whitespace == AsciiWhitespace \cup {"U+00A0", "U+2028", "U+FEFF"}

Punctuation == {".", ",", "!", "?", "'", "-"}

AllowSet == LettersDigits \cup Whitespace \cup Punctuation

Returns(v) == [raised |-> FALSE, val |-> v]

Raises == [raised |-> TRUE, val |-> <<>>]

(* text.replace(/<[^>]*>?/gm, ""): at each "<" the match runs greedily over  *)
(* every character that is not ">" and takes the ">" when there is one.      *)
RECURSIVE StripFrom(_, _, _)
StripFrom(s, i, inTag) ==
    IF i > Len(s) THEN <<>>
    ELSE IF inTag
         THEN StripFrom(s, i + 1, s[i] # ">")
         ELSE IF s[i] = "<"
              THEN StripFrom(s, i + 1, TRUE)
              ELSE <<s[i]>> \o StripFrom(s, i + 1, FALSE)

StripTags(s) == StripFrom(s, 1, FALSE)

(* .replace(/[{}[\]();<>]/g, "") *)
RemoveStructural(s) == SelectSeq(s, LAMBDA c : c \notin Structural)

(* .replace(/[^a-zA-Z0-9\s.,!?'-]/g, "") *)
RemoveDisallowed(s) == SelectSeq(s, LAMBDA c : c \in AllowSet)

(* .trim() *)
RECURSIVE TrimStart(_)
TrimStart(s) ==
    IF s # <<>> /\ Head(s) \in Whitespace THEN TrimStart(Tail(s)) ELSE s

RECURSIVE TrimEnd(_)
TrimEnd(s) ==
    IF s # <<>> /\ s[Len(s)] \in Whitespace
    THEN TrimEnd(SubSeq(s, 1, Len(s) - 1))
    ELSE s

Trim(s) == TrimEnd(TrimStart(s))

(* Variants of sanitizeInput that differ from the current one by one slip. *)
sanitizeInputNoGuard(text) ==
    IF text.type # "string" THEN Raises
    ELSE Returns(Trim(RemoveDisallowed(RemoveStructural(StripTags(text.chars)))))

sanitizeInputTrimFirst(text) ==
    IF text.type # "string" THEN Returns(<<>>)
    ELSE Returns(RemoveDisallowed(RemoveStructural(StripTags(Trim(text.chars)))))

sanitizeInputTagsOnly(text) ==
    IF text.type # "string" THEN Returns(<<>>)
    ELSE Returns(Trim(StripTags(text.chars)))

(* function sanitizeInput(text), src/server.js:415-422 *)
sanitizeInput(text) ==
    IF text.type # "string" THEN Returns(<<>>)
    ELSE Returns(Trim(RemoveDisallowed(RemoveStructural(StripTags(text.chars)))))

-----------------------------------------------------------------------------
(* The sanitizer on its own: one call, then a second call on the result. *)

SanIdle ==
    /\ sanIn = NonText("undefined")
    /\ sanOut = Returns(<<>>)
    /\ sanOut2 = Returns(<<>>)
    /\ sanPc = "off"

SrvIdle ==
    /\ env = {}
    /\ startPc = "off"
    /\ collection = "unset"
    /\ listening = FALSE
    /\ exitCode = -1
    /\ req = <<>>

SanInit ==
    /\ sanIn \in SanInputs
    /\ sanOut = Returns(<<>>)
    /\ sanOut2 = Returns(<<>>)
    /\ sanPc = "input"
    /\ SrvIdle

SanitizeOnce ==
    /\ sanPc = "input"
    /\ sanOut' = sanitizeInput(sanIn)
    /\ sanPc' = IF sanOut'.raised THEN "raised" ELSE "once"
    /\ UNCHANGED <<sanIn, sanOut2>>
    /\ UNCHANGED srvVars

SanitizeAgain ==
    /\ sanPc = "once"
    /\ sanOut2' = sanitizeInput(Str(sanOut.val))
    /\ sanPc' = IF sanOut2'.raised THEN "raised" ELSE "twice"
    /\ UNCHANGED <<sanIn, sanOut>>
    /\ UNCHANGED srvVars

SanNext == SanitizeOnce \/ SanitizeAgain

SanSpec == SanInit /\ [][SanNext]_vars

-----------------------------------------------------------------------------
(* Upstream collaborators: what the embedding provider, the vector search   *)
(* and the generation provider can hand back or throw.                      *)

Reqs == {"r1", "r2"}

Queries ==
    { NonText("undefined"), NonText("number"), Str(<<>>),
      Str(<<"<", "b", ">">>), Str(<<"@", " ">>),
      Str(<<"a">>), Str(<<"<", "s", ">", "h", "i", "{">>) }

Tok(k, v) == [k |-> k, v |-> v]

LB == Tok("lb", "{")

RB == Tok("rb", "}")

ErrorKey == Tok("key", "error")

CodeMember == Tok("member", "code")

StatusMember(s) == Tok("status", s)

Text(t) == Tok("text", t)

CapacityStatuses == {"RESOURCE_EXHAUSTED", "UNAVAILABLE"}

RejectedStatuses == {"INVALID_ARGUMENT"}

AuthStatuses == {"PERMISSION_DENIED", "UNAUTHENTICATED"}

VendorStatuses == CapacityStatuses \cup RejectedStatuses \cup AuthStatuses \cup {"NOT_FOUND"}

(* {"error":{"code":N,"status":S}}, as the SDK puts it in the message. *)
VendorPayload(s) == <<LB, ErrorKey, LB, CodeMember, StatusMember(s), RB, RB>>

Error(msg) == [kind |-> "Error", message |-> msg]

NoErr == [kind |-> "none", message |-> <<>>]

(* Thrown values that carry no string message: undefined/null, a value      *)
(* without a message property, and a message that is not a string.          *)
MessagelessKinds == {"nullish", "nomessage", "nonstring"}

Thrown ==
    {Error(VendorPayload(s)) : s \in VendorStatuses}
    \cup {Error(<<Text("got status: 429 ")>> \o VendorPayload("RESOURCE_EXHAUSTED"))}
    \cup { Error(<<LB, StatusMember("UNAVAILABLE"), RB>>),
           Error(<<LB, Text("not json"), RB>>),
           Error(<<LB, ErrorKey>>),
           Error(<<Text("fetch failed")>>) }
    \cup {[kind |-> k, message |-> <<>>] : k \in MessagelessKinds}

EmbedShapes ==
    { "undefined", "noEmbeddings", "emptyEmbeddings", "noValues",
      "emptyValues", "nonArray", "nonNumericArray", "numericArray" }

EmbedResp(shape, text) == [shape |-> shape, of |-> text]

NoEmbedResp == EmbedResp("none", <<>>)

NoVec == [kind |-> "undefined", of |-> <<>>]

Doc(id, score) == [id |-> id, score |-> score, content |-> id]

SearchResults ==
    { <<>>, <<Doc("dA", "0.91")>>, <<Doc("dA", "0.91"), Doc("dB", "0.80")>>,
      <<Doc("dC", "undefined")>> }

Prompt(context, question) == [context |-> context, question |-> question]

NoPrompt == Prompt(<<>>, <<>>)

GenShapes == {"undefined", "noText", "emptyText", "text"}

GenResp(shape, prompt) == [shape |-> shape, of |-> prompt]

NoGenResp == GenResp("none", NoPrompt)

Call(api, text, vec, prompt) == [api |-> api, text |-> text, vec |-> vec, prompt |-> prompt]

Response(status, error, message, answer) ==
    [status |-> status, error |-> error, message |-> message, answer |-> answer]

IdleReq ==
    [ pc |-> "idle", query |-> NonText("undefined"), userQuery |-> <<>>,
      embedResp |-> NoEmbedResp, queryEmbedding |-> NoVec,
      retrieved |-> FALSE, docs |-> <<>>, context |-> <<>>, ragPrompt |-> NoPrompt,
      genResp |-> NoGenResp, err |-> NoErr, calls |-> <<>>, responses |-> <<>> ]

-----------------------------------------------------------------------------
(* The catch block of POST /query: status extraction and the switch.        *)

(* err.message.match(/(\{.*?\})/s): from the first "{" to the first "}"      *)
(* after it; <<>> when there is no match.                                    *)
RegexMatch(msg) ==
    LET opens == {i \in 1..Len(msg) : msg[i] = LB}
    IN IF opens = {} THEN <<>>
       ELSE LET i == CHOOSE x \in opens : \A y \in opens : x <= y
                closes == {j \in (i + 1)..Len(msg) : msg[j] = RB}
            IN IF closes = {} THEN <<>>
               ELSE SubSeq(msg, i, CHOOSE x \in closes : \A y \in closes : x <= y)

EmptyObj == [ok |-> TRUE, next |-> 0, status |-> "undefined", hasError |-> FALSE, errStatus |-> "undefined"]

SyntaxError == [EmptyObj EXCEPT !.ok = FALSE]

(* The members of an object from token i on, up to its closing brace. *)
RECURSIVE ParseMembers(_, _, _)
ParseMembers(toks, i, acc) ==
    IF i > Len(toks) THEN SyntaxError
    ELSE IF toks[i] = RB THEN [acc EXCEPT !.next = i + 1]
    ELSE IF toks[i].k = "status" THEN ParseMembers(toks, i + 1, [acc EXCEPT !.status = toks[i].v])
    ELSE IF toks[i].k = "member" THEN ParseMembers(toks, i + 1, acc)
    ELSE IF toks[i].k = "key" /\ i + 1 <= Len(toks) /\ toks[i + 1] = LB
         THEN LET inner == ParseMembers(toks, i + 2, EmptyObj)
              IN IF inner.ok
                 THEN ParseMembers(toks, inner.next,
                                   [acc EXCEPT !.hasError = TRUE, !.errStatus = inner.status])
                 ELSE SyntaxError
    ELSE SyntaxError

(* JSON.parse of a text that starts with "{": the whole text is one object. *)
JSONParse(toks) ==
    IF toks = <<>> \/ toks[1] # LB THEN SyntaxError
    ELSE LET r == ParseMembers(toks, 2, EmptyObj)
         IN IF r.ok /\ r.next = Len(toks) + 1 THEN r ELSE SyntaxError

Null == "null"

(* Lines 549-561: apiStatus; a throw inside the inner try leaves it null. *)
ApiStatus(err) ==
    IF err.kind # "Error" THEN Null
    ELSE LET m == RegexMatch(err.message)
         IN IF m = <<>> THEN Null
            ELSE LET apiError == JSONParse(m)
                 IN IF apiError.ok /\ apiError.hasError /\ apiError.errStatus # "undefined"
                    THEN apiError.errStatus
                    ELSE Null

NoAnswer == NoGenResp

CapacityResponse ==
    Response(429, "Service Capacity Reached", "The AI service is currently overloaded.", NoAnswer)

RejectedResponse ==
    Response(400, "Invalid Request Content", "The AI service rejected the prompt.", NoAnswer)

AuthResponse ==
    Response(403, "Server Configuration Error", "Authentication failed.", NoAnswer)

ProcessingFailureResponse ==
    Response(500, "Internal AI Processing Failure", "Please contact the server administrator with screenshot.", NoAnswer)

InternalErrorResponse ==
    Response(500, "Internal Server Error", "An unexpected error occurred.", NoAnswer)

EmptyQueryResponse == Response(400, "Empty query.", "none", NoAnswer)

Includes(msg, t) == \E i \in 1..Len(msg) : msg[i] = Text(t)

Respond(rq, resp) == [rq EXCEPT !.pc = "done", !.responses = Append(@, resp)]

(* An exception that leaves the async handler: nothing is sent. *)
Escapes(rq) == [rq EXCEPT !.pc = "escaped"]

(* catch (err) { ... }, lines 545-603. *)
CatchBlock(rq, err) ==
    LET c == [rq EXCEPT !.err = err]
        apiStatus == ApiStatus(err)
    IN IF err.kind = "nullish" THEN Escapes(c)
       ELSE IF apiStatus \in CapacityStatuses THEN Respond(c, CapacityResponse)
       ELSE IF apiStatus \in RejectedStatuses THEN Respond(c, RejectedResponse)
       ELSE IF apiStatus \in AuthStatuses THEN Respond(c, AuthResponse)
       ELSE IF err.kind # "Error" THEN Escapes(c)
       ELSE IF Includes(err.message, "Embedding failed") \/ Includes(err.message, "Failed to generate content")
            THEN Respond(c, ProcessingFailureResponse)
            ELSE Respond(c, InternalErrorResponse)

TypeError == Error(<<Text("Cannot read properties of undefined")>>)

EmbeddingFailed == Error(<<Text("Embedding failed")>>)

GenerationFailed == Error(<<Text("Failed to generate content")>>)

-----------------------------------------------------------------------------
(* The handler of POST /query, cut at its three awaits. *)

(* Lines 433-447 with the raw query, not the sanitized one, given to embedContent. *)
HandleStartRawQuery(rq, query) ==
    LET userQuery == sanitizeInput(query)
        c == [rq EXCEPT !.query = query, !.userQuery = userQuery.val]
    IN IF userQuery.raised THEN CatchBlock(c, TypeError)
       ELSE IF userQuery.val = <<>> THEN Respond(c, EmptyQueryResponse)
       ELSE [c EXCEPT !.pc = "embed",
                      !.calls = Append(@, Call("embed", query.chars, NoVec, NoPrompt))]

(* Lines 433-447 without the early return on an empty query. *)
HandleStartNoEmptyCheck(rq, query) ==
    LET userQuery == sanitizeInput(query)
        c == [rq EXCEPT !.query = query, !.userQuery = userQuery.val]
    IN IF userQuery.raised THEN CatchBlock(c, TypeError)
       ELSE [c EXCEPT !.pc = "embed",
                      !.calls = Append(@, Call("embed", userQuery.val, NoVec, NoPrompt))]

(* Lines 433-447: sanitize, answer 400 on an empty result, else call embedContent. *)
HandleStart(rq, query) ==
    LET userQuery == sanitizeInput(query)
        c == [rq EXCEPT !.query = query, !.userQuery = userQuery.val]
    IN IF userQuery.raised THEN CatchBlock(c, TypeError)
       ELSE IF userQuery.val = <<>> THEN Respond(c, EmptyQueryResponse)
       ELSE [c EXCEPT !.pc = "embed",
                      !.calls = Append(@, Call("embed", userQuery.val, NoVec, NoPrompt))]

(* embedResp.embeddings?.[0]?.values *)
QueryEmbedding(embedResp) ==
    [ kind |-> CASE embedResp.shape \in {"noEmbeddings", "emptyEmbeddings", "noValues"} -> "undefined"
                 [] embedResp.shape = "emptyValues" -> "emptyArray"
                 [] OTHER -> embedResp.shape,
      of |-> embedResp.of ]

(* Array.isArray(queryEmbedding) && queryEmbedding.length !== 0 *)
IsNonEmptyArray(v) == v.kind \in {"nonNumericArray", "numericArray"}

(* Lines 448-475: check the embedding, then start the vector search. *)
AfterEmbed(rq, embedResp, coll) ==
    LET c == [rq EXCEPT !.embedResp = embedResp]
        queryEmbedding == QueryEmbedding(embedResp)
    IN IF embedResp.shape = "undefined" THEN CatchBlock(c, TypeError)
       ELSE IF ~IsNonEmptyArray(queryEmbedding)
            THEN CatchBlock([c EXCEPT !.queryEmbedding = queryEmbedding], EmbeddingFailed)
       ELSE IF coll = "unset"
            THEN CatchBlock([c EXCEPT !.queryEmbedding = queryEmbedding], TypeError)
       ELSE [c EXCEPT !.queryEmbedding = queryEmbedding,
                      !.pc = "search",
                      !.calls = Append(@, Call("search", <<>>, queryEmbedding, NoPrompt))]

(* docs.map((d,i) => `Source ${i+1} (Score: ${d.score.toFixed(2)}): ${d.content}`) *)
FormatDocs(docs) ==
    [i \in 1..Len(docs) |-> [n |-> i, score |-> docs[i].score, content |-> docs[i].content]]

NotFoundResponse ==
    Response(404, "none", "none", NoAnswer)

(* The retrieve step of the earlier revision (lines 276-285): 404 on no documents. *)
AfterSearchStrict(rq, docs) ==
    LET c == [rq EXCEPT !.retrieved = TRUE, !.docs = docs]
    IN IF docs = <<>> THEN Respond(c, NotFoundResponse)
       ELSE IF \E i \in 1..Len(docs) : docs[i].score = "undefined"
            THEN CatchBlock(c, TypeError)
       ELSE LET context == FormatDocs(docs)
                ragPrompt == Prompt(context, rq.userQuery)
            IN [c EXCEPT !.context = context, !.ragPrompt = ragPrompt, !.pc = "generate",
                         !.calls = Append(@, Call("generate", <<>>, NoVec, ragPrompt))]

(* Lines 475-535: build the context and the prompt, then call generateContent. *)
AfterSearch(rq, docs) ==
    LET c == [rq EXCEPT !.retrieved = TRUE, !.docs = docs]
    IN IF docs # <<>> /\ \E i \in 1..Len(docs) : docs[i].score = "undefined"
       THEN CatchBlock(c, TypeError)
       ELSE LET context == IF docs = <<>> THEN <<>> ELSE FormatDocs(docs)
                ragPrompt == Prompt(context, rq.userQuery)
            IN [c EXCEPT !.context = context, !.ragPrompt = ragPrompt, !.pc = "generate",
                         !.calls = Append(@, Call("generate", <<>>, NoVec, ragPrompt))]

(* Lines 536-543: the generated text, or the throw when there is none. *)
AfterGenerate(rq, genResp) ==
    LET c == [rq EXCEPT !.genResp = genResp]
    IN IF genResp.shape = "undefined" THEN CatchBlock(c, TypeError)
       ELSE IF genResp.shape # "text" THEN CatchBlock(c, GenerationFailed)
       ELSE Respond(c, Response(200, "none", "none", genResp))

Running == listening /\ exitCode = -1

Receive(r, query) ==
    /\ Running
    /\ req[r].pc = "idle"
    /\ req' = [req EXCEPT ![r] = HandleStart(@, query)]
    /\ UNCHANGED <<env, startPc, collection, listening, exitCode>>
    /\ UNCHANGED sanVars

EmbedResolves(r, shape) ==
    /\ Running
    /\ req[r].pc = "embed"
    /\ req' = [req EXCEPT ![r] = AfterEmbed(@, EmbedResp(shape, req[r].userQuery), collection)]
    /\ UNCHANGED <<env, startPc, collection, listening, exitCode>>
    /\ UNCHANGED sanVars

EmbedRejects(r, err) ==
    /\ Running
    /\ req[r].pc = "embed"
    /\ req' = [req EXCEPT ![r] = CatchBlock(@, err)]
    /\ UNCHANGED <<env, startPc, collection, listening, exitCode>>
    /\ UNCHANGED sanVars

SearchResolves(r, docs) ==
    /\ Running
    /\ req[r].pc = "search"
    /\ req' = [req EXCEPT ![r] = AfterSearch(@, docs)]
    /\ UNCHANGED <<env, startPc, collection, listening, exitCode>>
    /\ UNCHANGED sanVars

SearchRejects(r, err) ==
    /\ Running
    /\ req[r].pc = "search"
    /\ req' = [req EXCEPT ![r] = CatchBlock(@, err)]
    /\ UNCHANGED <<env, startPc, collection, listening, exitCode>>
    /\ UNCHANGED sanVars

(* generateContent answering a prompt kept in one variable shared by all requests. *)
GenerateResolvesSharedPrompt(r, shape) ==
    /\ Running
    /\ req[r].pc = "generate"
    /\ \E r2 \in Reqs :
           /\ req[r2].ragPrompt # NoPrompt
           /\ req' = [req EXCEPT ![r] = AfterGenerate(@, GenResp(shape, req[r2].ragPrompt))]
    /\ UNCHANGED <<env, startPc, collection, listening, exitCode>>
    /\ UNCHANGED sanVars

GenerateResolves(r, shape) ==
    /\ Running
    /\ req[r].pc = "generate"
    /\ req' = [req EXCEPT ![r] = AfterGenerate(@, GenResp(shape, req[r].ragPrompt))]
    /\ UNCHANGED <<env, startPc, collection, listening, exitCode>>
    /\ UNCHANGED sanVars

GenerateRejects(r, err) ==
    /\ Running
    /\ req[r].pc = "generate"
    /\ req' = [req EXCEPT ![r] = CatchBlock(@, err)]
    /\ UNCHANGED <<env, startPc, collection, listening, exitCode>>
    /\ UNCHANGED sanVars

-----------------------------------------------------------------------------
(* Startup: the environment check at module top level, then startServer(). *)

Required == {"MONGO_URI", "GEMINI_API_KEY", "MONGO_DB", "MONGO_COLLECTION", "VECTOR_SEARCH_INDEX_NAME"}

(* Lines 372-376, then startServer() up to `await client.connect()`. *)
EnvCheck ==
    /\ startPc = "envCheck"
    /\ IF env # Required
       THEN startPc' = "exited" /\ exitCode' = 1
       ELSE startPc' = "connecting" /\ UNCHANGED exitCode
    /\ UNCHANGED <<env, collection, listening, req>>
    /\ UNCHANGED sanVars

(* connectDB after client.connect() resolved: lines 400-401. *)
ConnectResolves ==
    /\ startPc = "connecting"
    /\ exitCode = -1
    /\ collection' = "handle"
    /\ startPc' = "connected"
    /\ UNCHANGED <<env, listening, exitCode, req>>
    /\ UNCHANGED sanVars

(* client.connect() rejected: the catch of startServer, lines 616-619. *)
ConnectRejects ==
    /\ startPc = "connecting"
    /\ exitCode = -1
    /\ startPc' = "exited"
    /\ exitCode' = 1
    /\ UNCHANGED <<env, collection, listening, req>>
    /\ UNCHANGED sanVars

(* app.listen called without waiting for connectDB (as `connectDB();` alone would). *)
ListenNoAwait ==
    /\ startPc \in {"connecting", "connected"}
    /\ exitCode = -1
    /\ ~listening
    /\ listening' = TRUE
    /\ UNCHANGED <<env, startPc, collection, exitCode, req>>
    /\ UNCHANGED sanVars

(* app.listen, lines 612-615, reached once `await connectDB()` returned. *)
Listen ==
    /\ startPc = "connected"
    /\ exitCode = -1
    /\ ~listening
    /\ listening' = TRUE
    /\ UNCHANGED <<env, startPc, collection, exitCode, req>>
    /\ UNCHANGED sanVars

Init ==
    /\ env \in {Required} \cup {Required \ {v} : v \in Required}
    /\ startPc = "envCheck"
    /\ collection = "unset"
    /\ listening = FALSE
    /\ exitCode = -1
    /\ req = [r \in Reqs |-> IdleReq]
    /\ SanIdle

Next ==
    \/ EnvCheck
    \/ ConnectResolves
    \/ ConnectRejects
    \/ Listen
    \/ \E r \in Reqs, query \in Queries : Receive(r, query)
    \/ \E r \in Reqs, shape \in EmbedShapes : EmbedResolves(r, shape)
    \/ \E r \in Reqs, err \in Thrown : EmbedRejects(r, err)
    \/ \E r \in Reqs, docs \in SearchResults : SearchResolves(r, docs)
    \/ \E r \in Reqs, err \in Thrown : SearchRejects(r, err)
    \/ \E r \in Reqs, shape \in GenShapes : GenerateResolves(r, shape)
    \/ \E r \in Reqs, err \in Thrown : GenerateRejects(r, err)

Spec == Init /\ [][Next]_vars

-----------------------------------------------------------------------------
(* Properties of POST /query and of startup, checked under Spec. *)

EmbedsPayload(err, s) ==
    /\ err.kind = "Error"
    /\ \E i \in 1..(Len(err.message) - Len(VendorPayload(s)) + 1) :
           SubSeq(err.message, i, i + Len(VendorPayload(s)) - 1) = VendorPayload(s)

ExpectedStatus(s) ==
    IF s \in CapacityStatuses THEN 429 ELSE IF s \in RejectedStatuses THEN 400 ELSE 403

(* C1: when an upstream call throws an error whose message embeds the vendor *)
(* payload {"error":{...,"status":S}}, the request is answered 429 for S =    *)
(* RESOURCE_EXHAUSTED or UNAVAILABLE, 400 for INVALID_ARGUMENT and 403 for    *)
(* PERMISSION_DENIED or UNAUTHENTICATED, with a body carrying error and       *)
(* message.                                                                   *)
C1_StatusDecidesResponse ==
    \A r \in Reqs : \A s \in CapacityStatuses \cup RejectedStatuses \cup AuthStatuses :
        (req[r].pc \in {"done", "escaped"} /\ EmbedsPayload(req[r].err, s)) =>
            /\ Len(req[r].responses) = 1
            /\ req[r].responses[1].status = ExpectedStatus(s)
            /\ req[r].responses[1].error # "none"
            /\ req[r].responses[1].message # "none"

(* C2: however a step fails, the handler ends having sent exactly one         *)
(* response: no exception leaves the handler and no second response is sent.  *)
C2_ExactlyOneResponse ==
    \A r \in Reqs :
        /\ Len(req[r].responses) <= 1
        /\ req[r].pc # "escaped"
        /\ req[r].pc = "done" => Len(req[r].responses) = 1

(* C3: a request whose query is absent, empty or empty after sanitization is  *)
(* answered 400 with an error field, and no upstream call is issued for it.   *)
C3_EmptyQueryRejected ==
    \A r \in Reqs :
        (req[r].pc # "idle" /\ sanitizeInput(req[r].query).val = <<>>) =>
            /\ req[r].pc = "done"
            /\ req[r].calls = <<>>
            /\ Len(req[r].responses) = 1
            /\ req[r].responses[1].status = 400
            /\ req[r].responses[1].error # "none"

C3_Witness ==
    \E r \in Reqs :
        /\ req[r].pc = "done"
        /\ req[r].query = Str(<<"<", "b", ">">>)
        /\ req[r].responses = <<EmptyQueryResponse>>

UnusableEmbedShapes ==
    {"noEmbeddings", "emptyEmbeddings", "noValues", "emptyValues", "nonArray", "nonNumericArray"}

(* C4: an embedding response whose value is empty, missing or not a numeric   *)
(* vector, and a generation response without text, end the request with 500   *)
(* and the internal-processing-failure body; after the embedding failure no   *)
(* vector search and no generation call is made.                              *)
C4_InternalFailure ==
    \A r \in Reqs :
        /\ req[r].embedResp.shape \in UnusableEmbedShapes =>
               /\ req[r].pc = "done"
               /\ req[r].responses = <<ProcessingFailureResponse>>
               /\ \A i \in 1..Len(req[r].calls) : req[r].calls[i].api = "embed"
        /\ req[r].genResp.shape \in {"noText", "emptyText"} =>
               /\ req[r].pc = "done"
               /\ req[r].responses = <<ProcessingFailureResponse>>

(* C5: after a successful embedding, a vector search that returns no document *)
(* always leads to a generation call with an empty context and never to 404   *)
(* or to an exception at that step; the answer the generation call returns is *)
(* sent with 200.                                                             *)
C5_ZeroDocuments ==
    \A r \in Reqs :
        (req[r].retrieved /\ req[r].docs = <<>>) =>
            /\ Len(req[r].calls) = 3
            /\ req[r].calls[3].api = "generate"
            /\ req[r].calls[3].prompt.context = <<>>
            /\ \A i \in 1..Len(req[r].responses) : req[r].responses[i].status # 404
            /\ (req[r].genResp.shape = "none" /\ req[r].pc # "generate") => req[r].err \in Thrown
            /\ req[r].genResp.shape = "text" =>
                   req[r].responses = <<Response(200, "none", "none", req[r].genResp)>>

C5_Witness ==
    \E r \in Reqs :
        /\ req[r].retrieved
        /\ req[r].docs = <<>>
        /\ req[r].pc = "done"
        /\ req[r].responses = <<Response(200, "none", "none", GenResp("text", Prompt(<<>>, req[r].userQuery)))>>

-----------------------------------------------------------------------------
(* Properties of sanitizeInput, checked under SanSpec. *)

Sanitized == sanPc \in {"once", "twice"}

(* C6: sanitizeInput(sanitizeInput(x)) = sanitizeInput(x) for every string x. *)
C6_Idempotent ==
    (sanPc = "twice" /\ sanIn.type = "string") => sanOut2 = sanOut

C6_Witness ==
    /\ sanPc = "twice"
    /\ sanIn.type = "string"
    /\ sanOut.val # <<>>
    /\ sanOut.val # sanIn.chars

(* C7: the output of sanitizeInput holds none of { } [ ] ( ) ; < >, also for  *)
(* nested, overlapping and unterminated tags.                                 *)
C7_NoStructuralChars ==
    (sanPc # "input" /\ sanIn.type = "string") =>
        /\ Sanitized
        /\ \A i \in 1..Len(sanOut.val) : sanOut.val[i] \notin Structural

C7_Witness ==
    /\ sanPc = "once"
    /\ sanOut.val # <<>>
    /\ \E i \in 1..Len(sanIn.chars) :
           /\ sanIn.chars[i] = "<"
           /\ \A j \in i..Len(sanIn.chars) : sanIn.chars[j] # ">"
           /\ \E h \in 1..(i - 1) : sanIn.chars[h] = "<"

InTag(x, i) == \E j \in 1..i : x[j] = "<" /\ \A k \in j..(i - 1) : x[k] # ">"

Kept(x, A) == {i \in 1..Len(x) : ~InTag(x, i) /\ x[i] \notin Structural /\ x[i] \in A}

Core(x, A) ==
    {i \in Kept(x, A) : /\ \E a \in Kept(x, A) : a <= i /\ x[a] \notin Whitespace
                        /\ \E b \in Kept(x, A) : b >= i /\ x[b] \notin Whitespace}

Expected(x, A) ==
    [k \in 1..Cardinality(Core(x, A)) |->
        x[CHOOSE p \in Core(x, A) : Cardinality({q \in Core(x, A) : q < p}) = k - 1]]

FourSteps(A) ==
    (sanPc # "input" /\ sanIn.type = "string") =>
        /\ Sanitized
        /\ sanOut.val = Expected(sanIn.chars, A)
        /\ \A i \in 1..Len(sanOut.val) : sanOut.val[i] \in A
        /\ sanOut.val # <<>> =>
               (sanOut.val[1] \notin Whitespace /\ sanOut.val[Len(sanOut.val)] \notin Whitespace)

AsciiAllowSet == LettersDigits \cup AsciiWhitespace \cup Punctuation

(* C9: sanitizeInput(x) is x without its tag-like substrings, then without    *)
(* { } [ ] ( ) ; < >, then without every character outside the allow-set of   *)
(* letters, digits, whitespace and . , ! ? ' -, then trimmed; every character *)
(* of the output is in that ASCII allow-set and the output neither starts nor *)
(* ends with whitespace.                                                      *)
C9_FourStepsAscii == FourSteps(AsciiAllowSet)

(* The same four steps hold with the whitespace of the allow-set read as the  *)
(* whole class \s, non-ASCII spaces included.                                 *)
FourStepsUnicodeWhitespace == FourSteps(AllowSet)

-----------------------------------------------------------------------------
(* Order and isolation of the upstream calls, checked under Spec. *)

CallOrder == <<"embed", "search", "generate">>

(* The calls of request r are a prefix of embed, search, generate, the search *)
(* follows an embedding response that passed `usable`, the generation follows *)
(* a resolved search, and a request that failed is over with no call after    *)
(* the failing step.                                                          *)
CallsInOrder(r, usable) ==
    /\ Len(req[r].calls) <= 3
    /\ \A i \in 1..Len(req[r].calls) : req[r].calls[i].api = CallOrder[i]
    /\ req[r].pc \in {"embed", "search", "generate"} =>
           (req[r].calls # <<>> /\ req[r].calls[Len(req[r].calls)].api = req[r].pc)
    /\ Len(req[r].calls) >= 2 => req[r].embedResp.shape \in usable
    /\ Len(req[r].calls) >= 3 => (req[r].retrieved /\ req[r].embedResp.shape \in usable)
    /\ req[r].err # NoErr =>
           /\ req[r].pc \in {"done", "escaped"}
           /\ req[r].embedResp.shape \notin usable => Len(req[r].calls) <= 1
           /\ ~req[r].retrieved => Len(req[r].calls) <= 2

(* C11: within one request the upstream calls come in the order embed, vector *)
(* search, generate, each at most once; a later call is issued only after the *)
(* earlier one returned a usable result (for the embedding, a numeric vector  *)
(* of non-zero length), and after a failure no further call is issued.        *)
C11_SequentialCalls == \A r \in Reqs : CallsInOrder(r, {"numericArray"})

(* The same order and no-retry property with `usable` read as the handler's   *)
(* own test, a non-empty array.                                               *)
SequentialCallsNonEmptyArray ==
    \A r \in Reqs : CallsInOrder(r, {"numericArray", "nonNumericArray"})

Sanitized1(r) == sanitizeInput(req[r].query).val

HasStructural(text) == \E i \in 1..Len(text) : text[i] \in Structural

(* C12: for every request that reaches the providers, the text given to the   *)
(* embedding provider and the question in the prompt given to the generation  *)
(* provider are exactly sanitizeInput(raw query); no call carries the raw     *)
(* text of a query that sanitization changes, such as one with a tag.         *)
C12_OnlySanitizedText ==
    \A r \in Reqs : \A i \in 1..Len(req[r].calls) :
        /\ req[r].calls[i].api = "embed" =>
               /\ req[r].calls[i].text = Sanitized1(r)
               /\ ~HasStructural(req[r].calls[i].text)
        /\ req[r].calls[i].api = "generate" =>
               /\ req[r].calls[i].prompt.question = Sanitized1(r)
               /\ req[r].calls[i].prompt = req[r].ragPrompt
               /\ ~HasStructural(req[r].calls[i].prompt.question)
        /\ req[r].query.chars # Sanitized1(r) =>
               /\ req[r].calls[i].text # req[r].query.chars
               /\ req[r].calls[i].prompt.question # req[r].query.chars

C12_Witness ==
    \E r \in Reqs :
        /\ req[r].query = Str(<<"<", "s", ">", "h", "i", "{">>)
        /\ Len(req[r].calls) = 3
        /\ req[r].calls[1].text = <<"h", "i">>
        /\ req[r].calls[3].prompt.question = <<"h", "i">>

(* What request r holds is derived from its own query alone. *)
OwnData(r) ==
    /\ req[r].userQuery = sanitizeInput(req[r].query).val
    /\ Len(req[r].calls) >= 1 => req[r].calls[1].text = req[r].userQuery
    /\ req[r].embedResp.shape # "none" => req[r].embedResp.of = req[r].userQuery
    /\ Len(req[r].calls) >= 2 =>
           /\ req[r].queryEmbedding.of = req[r].userQuery
           /\ req[r].calls[2].vec = req[r].queryEmbedding
    /\ Len(req[r].calls) >= 3 =>
           /\ req[r].ragPrompt =
                  Prompt(IF req[r].docs = <<>> THEN <<>> ELSE FormatDocs(req[r].docs), req[r].userQuery)
           /\ req[r].calls[3].prompt = req[r].ragPrompt
    /\ req[r].genResp.shape # "none" => req[r].genResp.of = req[r].ragPrompt
    /\ \A i \in 1..Len(req[r].responses) :
           req[r].responses[i].status = 200 =>
               /\ req[r].responses[i].answer = req[r].genResp
               /\ req[r].responses[i].answer.of.question = req[r].userQuery

(* A step of a handler changes the locals of one request and leaves the       *)
(* collection handle as it was.                                               *)
HandlerStepIsLocal ==
    req' # req =>
        /\ collection' = collection
        /\ \E r \in Reqs : \A r2 \in Reqs \ {r} : req'[r2] = req[r2]

(* C13: with requests interleaving at the three awaits, each request's        *)
(* embedding vector, documents, prompt and answer come from its own query,    *)
(* the response sent is the answer generated from its own prompt, and the     *)
(* only state the requests share is the collection handle, which no request   *)
(* writes.                                                                    *)
C13_RequestsIsolated ==
    [][ /\ \A r \in Reqs : OwnData(r)'
        /\ HandlerStepIsLocal ]_vars

C13_Witness ==
    /\ req["r1"].pc = "done"
    /\ req["r1"].responses =
           <<Response(200, "none", "none", GenResp("text", req["r1"].ragPrompt))>>
    /\ req["r2"].pc = "generate"
    /\ req["r2"].userQuery # req["r1"].userQuery
    /\ req["r2"].ragPrompt # req["r1"].ragPrompt

====
